---- MODULE Spec2Model ----
(***************************************************************************)
(* A model of wagtail-js: the query serializer (buildQueryString), the     *)
(* transport wrapper (fetchRequest), the content resolver (fetchContent)   *)
(* and the client facade (CMSClient) with its media resolver (getMediaSrc).*)
(*                                                                         *)
(* A JavaScript string is a sequence of symbols (each symbol a TLA+        *)
(* string); a JavaScript value is a record [t, v] tagged with its typeof;  *)
(* an object literal is the sequence of its own <<key, value>> entries in  *)
(* property order.  Keys are parameter names (never array indices), so     *)
(* for..in visits them in insertion order.                                 *)
(***************************************************************************)
EXTENDS Integers, Sequences, FiniteSets, TLC

VARIABLES qsIn, qsOut, qsDone, client, ctorIn, ctorError, calls, mediaIn, mediaOut

vars == <<qsIn, qsOut, qsDone, client, ctorIn, ctorError, calls, mediaIn, mediaOut>>

qsVars == <<qsIn, qsOut, qsDone>>

mediaVars == <<mediaIn, mediaOut>>

clientVars == <<client, ctorIn, ctorError, calls>>

-----------------------------------------------------------------------------
(* Bounds of the model *)

\* the largest number of keys of a filter given to buildQueryString
MaxKeys == 2

\* the largest number of elements of a list value
MaxList == 2

\* the largest numeric identifier of a page, an image or a document
MaxId == 1

-----------------------------------------------------------------------------
(* JavaScript values *)

Undefined == [t |-> "undefined", v |-> 0]

Str(s) == [t |-> "string", v |-> s]

Num(n) == [t |-> "number", v |-> n]

Bool(b) == [t |-> "boolean", v |-> b]

Arr(l) == [t |-> "array", v |-> l]

Obj(entries) == [t |-> "object", v |-> entries]

Null == [t |-> "null", v |-> 0]

\* ToBoolean: undefined, 0, "" and false are falsy; arrays and objects are truthy
Truthy(x) ==
  CASE x.t = "undefined" -> FALSE
    [] x.t = "null"      -> FALSE
    [] x.t = "string"    -> x.v /= <<>>
    [] x.t = "number"    -> x.v /= 0
    [] x.t = "boolean"   -> x.v
    [] OTHER             -> TRUE

\* k in o, for an object o; false of undefined
HasKey(o, k) == o.t = "object" /\ \E i \in 1..Len(o.v) : o.v[i][1] = k

\* o[k], and o?.k when o is undefined: a missing property reads as undefined
Get(o, k) ==
  IF HasKey(o, k)
    THEN LET i == CHOOSE j \in 1..Len(o.v) : o.v[j][1] = k IN o.v[i][2]
    ELSE Undefined

Digit(d) ==
  CASE d = 0 -> "0" [] d = 1 -> "1" [] d = 2 -> "2" [] d = 3 -> "3" [] d = 4 -> "4"
    [] d = 5 -> "5" [] d = 6 -> "6" [] d = 7 -> "7" [] d = 8 -> "8" [] d = 9 -> "9"

RECURSIVE NumToStr(_)
\* the decimal digits of a natural number
NumToStr(n) == IF n < 10 THEN <<Digit(n)>> ELSE NumToStr(n \div 10) \o <<Digit(n % 10)>>

RECURSIVE JoinStrings(_, _)
\* the strings of a list separated by sep, "" for an empty list
JoinStrings(list, sep) ==
  IF list = <<>> THEN <<>>
  ELSE IF Len(list) = 1 THEN list[1]
  ELSE list[1] \o sep \o JoinStrings(Tail(list), sep)

\* the string of a scalar in a template literal `${x}`
ScalarToStr(x) ==
  CASE x.t = "string"    -> x.v
    [] x.t = "number"    -> NumToStr(x.v)
    [] x.t = "boolean"   -> IF x.v THEN <<"true">> ELSE <<"false">>
    [] x.t = "undefined" -> <<"undefined">>
    [] x.t = "null"      -> <<"null">>
    [] OTHER             -> <<"[object Object]">>

\* Array.prototype.join: each element as a string (undefined and null as ""),
\* separated by sep
Join(arr, sep) ==
  JoinStrings([i \in 1..Len(arr.v) |->
                 IF arr.v[i].t \in {"undefined", "null"} THEN <<>>
                 ELSE ScalarToStr(arr.v[i])], sep)

\* the string a template literal `${x}` yields
ToStr(x) == IF x.t = "array" THEN Join(x, <<",">>) ELSE ScalarToStr(x)

-----------------------------------------------------------------------------
(* Query serializer *)

RECURSIVE queryArrayMissingEmptyCheck(_)
\* the loop without its test for the empty string
queryArrayMissingEmptyCheck(entries) ==
  IF entries = <<>> THEN <<>>
  ELSE LET key == entries[1][1]
           value == entries[1][2]
           rest == queryArrayMissingEmptyCheck(Tail(entries))
       IN IF value.t /= "undefined"
            THEN <<(<<key, "=">> \o ToStr(value))>> \o rest
            ELSE rest

RECURSIVE queryArrayUnshift(_)
\* the loop adding each pair at the front of the array
queryArrayUnshift(entries) ==
  IF entries = <<>> THEN <<>>
  ELSE LET key == entries[1][1]
           value == entries[1][2]
           rest == queryArrayUnshift(Tail(entries))
       IN IF value.t /= "undefined"
            THEN IF value.t = "array"
                   THEN rest \o <<(<<key, "=">> \o Join(value, <<",">>))>>
                   ELSE IF value /= Str(<<>>)
                          THEN rest \o <<(<<key, "=">> \o ToStr(value))>>
                          ELSE rest
            ELSE rest

RECURSIVE queryArray(_)
\* the loop of buildQueryString: one `key=value` string per rendered entry
queryArray(entries) ==
  IF entries = <<>> THEN <<>>
  ELSE LET key == entries[1][1]
           value == entries[1][2]
           rest == queryArray(Tail(entries))
       IN IF value.t /= "undefined"
            THEN IF value.t = "array"
                   THEN <<(<<key, "=">> \o Join(value, <<",">>))>> \o rest
                   ELSE IF value /= Str(<<>>)
                          THEN <<(<<key, "=">> \o ToStr(value))>> \o rest
                          ELSE rest
            ELSE rest

\* a serializer that puts the "?" of the URL in front of the pairs
buildQueryStringWithPrefix(queries) ==
  IF ~Truthy(queries) THEN <<>>
  ELSE <<"?">> \o JoinStrings(queryArray(queries.v), <<"&">>)

buildQueryString(queries) ==
  IF ~Truthy(queries) THEN <<>>
  ELSE JoinStrings(queryArray(queries.v), <<"&">>)

-----------------------------------------------------------------------------
(* Errors and outcomes *)

\* an error object: its class, message, code and cause, and where it was
\* created (the caller and the site stand for the object's identity); no
\* constructor of the program is given a cause
ErrorObj(cls, message, code, c, site) ==
  [t |-> "error",
   v |-> [cls |-> cls, message |-> message, code |-> code, cause |-> Undefined,
          by |-> c, site |-> site]]

NewFetchError(message, code, c, site) == ErrorObj("FetchError", message, code, c, site)

\* a validation error made with the class of the transport errors
NewErrorAsFetchError(message, c, site) ==
  ErrorObj("FetchError", message, "REQUEST_FAILED", c, site)

NewError(message, c, site) == ErrorObj("Error", message, "", c, site)

\* error instanceof FetchError
IsFetchError(e) == e.t = "error" /\ e.v.cls = "FetchError"

Return(x) == [kind |-> "return", val |-> x]

Throw(e) == [kind |-> "throw", val |-> e]

-----------------------------------------------------------------------------
(* Client construction *)

\* a test of the first character in place of the last
startsWithSlash(str) == str.v /= <<>> /\ str.v[1] = "/"

endsWithSlash(str) == str.v /= <<>> /\ str.v[Len(str.v)] = "/"

ConfigErrorMessage == "baseURL, mediaBaseURL or apiPath must not end with \"/\""

\* x || y
OrElse(x, y) == IF Truthy(x) THEN x ELSE y

\* new CMSClient(options): throws, or returns the client's fields
CMSClient_constructor(options) ==
  IF \/ endsWithSlash(options.baseURL)
     \/ endsWithSlash(options.apiPath)
     \/ (Truthy(options.mediaBaseURL) /\ endsWithSlash(options.mediaBaseURL))
    THEN Throw(NewError(ConfigErrorMessage, 0, "constructor"))
    ELSE Return([t |-> "client",
                 v |-> [baseURL |-> options.baseURL,
                        mediaBaseURL |-> options.mediaBaseURL,
                        apiPath |-> options.apiPath,
                        headers |-> options.headers,
                        cache |-> OrElse(options.cache, Str(<<"force-cache">>))]])

NoOptions ==
  [baseURL |-> Undefined, mediaBaseURL |-> Undefined, apiPath |-> Undefined,
   headers |-> Undefined, cache |-> Undefined]

NoClient == [t |-> "none", v |-> NoOptions]

BaseURLs == {Str(<<"https://cms">>), Str(<<"https://cms", "/">>), Str(<<>>)}

ApiPaths == {Str(<<"/", "api">>), Str(<<"/", "api", "/">>), Str(<<>>)}

MediaBaseURLs ==
  {Undefined, Str(<<"https://cdn">>), Str(<<"https://cdn", "/">>), Str(<<>>)}

ClientHeaders == {Undefined, Obj(<< <<"Authorization", Str(<<"token">>)>> >>)}

ClientCaches == {Undefined, Str(<<"no-store">>)}

Options ==
  [baseURL : BaseURLs, mediaBaseURL : MediaBaseURLs, apiPath : ApiPaths,
   headers : ClientHeaders, cache : ClientCaches]

\* the constructor call of a program: it yields a client or throws
Construct ==
  /\ client.t = "none"
  /\ ctorError = <<>>
  /\ LET r == CMSClient_constructor(ctorIn)
     IN IF r.kind = "throw"
          THEN /\ ctorError' = <<r.val>>
               /\ UNCHANGED client
          ELSE /\ client' = r.val
               /\ UNCHANGED ctorError
  /\ UNCHANGED <<ctorIn, calls>>
  /\ UNCHANGED qsVars
  /\ UNCHANGED mediaVars

-----------------------------------------------------------------------------
(* Transport wrapper *)

GET == Str(<<"GET">>)

POST == Str(<<"POST">>)

ForceCache == Str(<<"force-cache">>)

\* a parameter with a default value: the default replaces undefined
DefaultTo(x, d) == IF x.t = "undefined" THEN d ELSE x

RECURSIVE JSONmembers(_)
\* the members "key":value of an object's entries, undefined values skipped
JSONmembers(entries) ==
  IF entries = <<>> THEN <<>>
  ELSE LET key == entries[1][1]
           value == entries[1][2]
           rest == JSONmembers(Tail(entries))
       IN IF value.t = "undefined" THEN rest
          ELSE <<(<<"\"", key, "\"", ":">> \o
                   (IF value.t = "string"
                      THEN <<"\"">> \o value.v \o <<"\"">>
                      ELSE ScalarToStr(value)))>> \o rest

\* JSON.stringify of null, of a scalar and of an object of scalars
JSONstringify(x) ==
  CASE x.t = "undefined" -> Undefined
    [] x.t = "object"    -> Str(<<"{">> \o JoinStrings(JSONmembers(x.v), <<",">>) \o <<"}">>)
    [] x.t = "string"    -> Str(<<"\"">> \o x.v \o <<"\"">>)
    [] OTHER             -> Str(ScalarToStr(x))

\* an object that refers to itself: JSON.stringify throws a TypeError on it
Circular == [t |-> "circular", v |-> 0]

StringifyThrows(x) == x.t = "circular"

\* the arguments of a call of fetchRequest
FrArgs(method, url, data, headers, cache) ==
  [method |-> method, url |-> url, data |-> data, headers |-> headers, cache |-> cache]

\* a call of fetch that carries the serialized data whatever the method
fetchRequestAlwaysWithBody(a) ==
  [url |-> a.url,
   cache |-> DefaultTo(a.cache, ForceCache),
   method |-> a.method,
   headers |-> a.headers,
   hasBody |-> TRUE,
   body |-> JSONstringify(a.data)]

\* the call fetch(url, init) that fetchRequest makes
fetchRequest(a) ==
  [url |-> a.url,
   cache |-> DefaultTo(a.cache, ForceCache),
   method |-> a.method,
   headers |-> a.headers,
   hasBody |-> a.method /= GET,
   body |-> IF a.method /= GET THEN JSONstringify(a.data) ELSE Undefined]

\* the record the catch block of fetchRequest writes to the console
FetchRequestLog(a, error) ==
  [group |-> "FETCH_REQUEST_ERROR", method |-> a.method, url |-> a.url,
   data |-> a.data, headers |-> a.headers, error |-> error]

\* a catch block that hands the error it caught to the FetchError it throws
fetchRequestCatchKeepsCause(a, error, c) ==
  [log |-> <<FetchRequestLog(a, error)>>,
   out |-> IF IsFetchError(error)
             THEN Throw(error)
             ELSE Throw([t |-> "error",
                         v |-> [cls |-> "FetchError",
                                message |-> "An unexpected error occurred",
                                code |-> "UNEXPECTED_ERROR", cause |-> error,
                                by |-> c, site |-> "fetchRequest:76"]])]

\* a catch block that rethrows a FetchError before it writes its record
fetchRequestCatchLogsAfterRethrow(a, error, c) ==
  IF IsFetchError(error)
    THEN [log |-> <<>>, out |-> Throw(error)]
    ELSE [log |-> <<FetchRequestLog(a, error)>>,
          out |-> Throw(NewFetchError("An unexpected error occurred", "UNEXPECTED_ERROR",
                                      c, "fetchRequest:76"))]

\* the catch block of fetchRequest: log, then rethrow a FetchError and wrap
\* anything else
fetchRequestCatch(a, error, c) ==
  [log |-> <<FetchRequestLog(a, error)>>,
   out |-> IF IsFetchError(error)
             THEN Throw(error)
             ELSE Throw(NewFetchError("An unexpected error occurred", "UNEXPECTED_ERROR",
                                      c, "fetchRequest:76"))]

\* fetchRequest without its test of response.ok
fetchRequestOnResponseIgnoresOk(a, response, c) ==
  [parse |-> TRUE, log |-> <<>>, out |-> Return(Undefined)]

\* fetchRequest once fetch has resolved: a response that is not ok throws
\* REQUEST_FAILED into the catch block, an ok one has its body parsed
fetchRequestOnResponse(a, response, c) ==
  IF ~response.ok
    THEN LET r == fetchRequestCatch(a, NewFetchError("Request failed", "REQUEST_FAILED",
                                                     c, "fetchRequest:60"), c)
         IN [parse |-> FALSE, log |-> r.log, out |-> r.out]
    ELSE [parse |-> TRUE, log |-> <<>>, out |-> Return(Undefined)]

-----------------------------------------------------------------------------
(* Content resolver *)

OrderOffsetMessage ==
  "Random ordering with offset is not supported. Please remove either the 'order' or 'offset' query."

TreeMessage ==
  "Filtering by tree position is supported only for pages. Please remove the 'child_of', 'ancestor_of' or 'decendant_of'  query."

\* the arguments of a call of fetchContent
FcArgs(baseURL, apiPath, content, queries, headers, cache) ==
  [baseURL |-> baseURL, apiPath |-> apiPath, content |-> content,
   queries |-> queries, headers |-> headers, cache |-> cache]

\* the URL without the "/" that ends the path
fullUrlNoSlash(a) ==
  Str(a.baseURL.v \o a.apiPath.v \o <<"/">> \o a.content.v \o <<"?">>
        \o buildQueryString(a.queries))

\* `${baseURL}${apiPath}/${content}/?${query}`
fullUrl(a) ==
  Str(a.baseURL.v \o a.apiPath.v \o <<"/">> \o a.content.v \o <<"/", "?">>
        \o buildQueryString(a.queries))

\* fetchContent up to its await: it throws a validation error or calls
\* fetchRequest, whose outcome becomes its own
fetchContent(a, c) ==
  IF Truthy(Get(a.queries, "order")) /\ Truthy(Get(a.queries, "offset"))
    THEN Throw(NewError(OrderOffsetMessage, c, "fetchContent:58"))
  ELSE IF /\ \/ Truthy(Get(a.queries, "child_of"))
             \/ Truthy(Get(a.queries, "ancestor_of"))
             \/ Truthy(Get(a.queries, "decendant_of"))
          /\ a.content /= Str(<<"pages">>)
    THEN Throw(NewError(TreeMessage, c, "fetchContent:67"))
  ELSE [kind |-> "await",
        val |-> FrArgs(GET, fullUrl(a), Obj(<<>>), a.headers,
                       DefaultTo(a.cache, ForceCache))]

-----------------------------------------------------------------------------
(* Client facade *)

\* the headers and the cache of the client taken before those of the call
CMSClient_fetchContentClientFirst(this, content, queries, headers, cache) ==
  FcArgs(this.v.baseURL, this.v.apiPath, content, queries,
         OrElse(this.v.headers, headers), OrElse(this.v.cache, cache))

\* CMSClient.fetchContent: the arguments it gives fetchContent
CMSClient_fetchContent(this, content, queries, headers, cache) ==
  FcArgs(this.v.baseURL, this.v.apiPath, content, queries,
         OrElse(headers, this.v.headers), OrElse(cache, this.v.cache))

\* `${contentType}/${id}`
ContentPath(contentType, id) == Str(<<contentType, "/">> \o ScalarToStr(id))

\* o with property k set to value: in place when o has k, appended otherwise
ObjSet(entries, k, value) ==
  IF \E i \in 1..Len(entries) : entries[i][1] = k
    THEN [i \in 1..Len(entries) |->
            IF entries[i][1] = k THEN <<k, value>> ELSE entries[i]]
    ELSE Append(entries, <<k, value>>)

RECURSIVE SpreadInto(_, _)
SpreadInto(entries, src) ==
  IF src = <<>> THEN entries
  ELSE SpreadInto(ObjSet(entries, src[1][1], src[1][2]), Tail(src))

\* { ...queries, ...entries }: the entries written over those of queries
SpreadUnder(entries, queries) ==
  Obj(IF queries.t = "object" THEN SpreadInto(queries.v, entries) ELSE entries)

\* { ...entries, ...queries }: spreading undefined adds nothing
Spread(entries, queries) ==
  Obj(IF queries.t = "object" THEN SpreadInto(entries, queries.v) ELSE entries)

NotFound(message, data) ==
  Obj(<< <<"message", Str(<<message>>)>>, <<"data", data>> >>)

UnknownErrorLog(error) ==
  [group |-> "console.error", method |-> Undefined, url |-> Undefined,
   data |-> Str(<<"An unknown error occurred:">>), headers |-> Undefined,
   error |-> error]

\* a lookup with no try/catch: the failure of fetchContent is its own
lookupByIdThenRethrows(message, fcOut) == [out |-> fcOut, log |-> <<>>]

\* a catch with no test of the class of the error: every failure is reported
\* under the message of the family
lookupByIdThenOneMessage(message, fcOut) ==
  IF fcOut.kind = "return" THEN [out |-> fcOut, log |-> <<>>]
  ELSE [out |-> Return(NotFound(message, fcOut.val)), log |-> <<>>]

\* a catch that lets what is not a FetchError go on to the caller
lookupByIdThenRethrowsUnknown(message, fcOut) ==
  IF fcOut.kind = "return" THEN [out |-> fcOut, log |-> <<>>]
  ELSE IF IsFetchError(fcOut.val)
    THEN [out |-> Return(NotFound(message, fcOut.val)), log |-> <<>>]
  ELSE [out |-> fcOut, log |-> <<>>]

\* the try/catch around the numeric lookups of fetchPage, fetchImage and
\* fetchDocument
lookupByIdThen(message, fcOut) ==
  IF fcOut.kind = "return" THEN [out |-> fcOut, log |-> <<>>]
  ELSE IF IsFetchError(fcOut.val)
    THEN [out |-> Return(NotFound(message, fcOut.val)), log |-> <<>>]
  ELSE [out |-> Return(NotFound("An unknown error occurred:", fcOut.val)),
        log |-> <<UnknownErrorLog(fcOut.val)>>]

\* fetchPage up to its await: the content path and filter it requests
fetchPage(idOrSlug, queries) ==
  IF idOrSlug.t = "string"
    THEN [content |-> Str(<<"pages">>),
          queries |-> Spread(<< <<"slug", idOrSlug>> >>, queries)]
    ELSE [content |-> ContentPath("pages", idOrSlug), queries |-> queries]

\* fetchPage after its await, with the textual branch inside the try/catch of
\* the numeric branch
fetchPageThenCatches(idOrSlug, fcOut) ==
  IF idOrSlug.t = "string" /\ fcOut.kind = "return"
    THEN LET response == fcOut.val
             items == Get(response, "items")
         IN IF Truthy(items) /\ Len(items.v) > 0
              THEN [out |-> Return(items.v[1]), log |-> <<>>]
              ELSE [out |-> Return(NotFound("Page not found", response)), log |-> <<>>]
    ELSE lookupByIdThen("Page not found", fcOut)

\* fetchPage after its await, with the test of items.length left out: an empty
\* list gives items[0], which is undefined
fetchPageThenNoLengthCheck(idOrSlug, fcOut) ==
  IF idOrSlug.t = "string"
    THEN IF fcOut.kind = "throw" THEN [out |-> fcOut, log |-> <<>>]
         ELSE LET response == fcOut.val
                  items == Get(response, "items")
              IN IF Truthy(items)
                   THEN [out |-> Return(IF Len(items.v) > 0 THEN items.v[1] ELSE Undefined),
                         log |-> <<>>]
                   ELSE [out |-> Return(NotFound("Page not found", response)),
                         log |-> <<>>]
    ELSE lookupByIdThen("Page not found", fcOut)

\* fetchPage after its await
fetchPageThen(idOrSlug, fcOut) ==
  IF idOrSlug.t = "string"
    THEN IF fcOut.kind = "throw" THEN [out |-> fcOut, log |-> <<>>]
         ELSE LET response == fcOut.val
                  items == Get(response, "items")
              IN IF Truthy(items) /\ Len(items.v) > 0
                   THEN [out |-> Return(items.v[1]), log |-> <<>>]
                   ELSE [out |-> Return(NotFound("Page not found", response)),
                         log |-> <<>>]
    ELSE lookupByIdThen("Page not found", fcOut)

fetchImage(id, queries) == [content |-> ContentPath("images", id), queries |-> queries]

fetchImageThen(fcOut) == lookupByIdThen("Image not found", fcOut)

fetchDocument(id, queries) ==
  [content |-> ContentPath("documents", id), queries |-> queries]

fetchDocumentThen(fcOut) == lookupByIdThen("Document not found", fcOut)

fetchPages(queries) == [content |-> Str(<<"pages">>), queries |-> queries]

\* fetchImages with the content path of fetchPages
fetchImagesFromPages(queries) == [content |-> Str(<<"pages">>), queries |-> queries]

fetchImages(queries) == [content |-> Str(<<"images">>), queries |-> queries]

fetchDocuments(queries) == [content |-> Str(<<"documents">>), queries |-> queries]

ClientOps ==
  {"fetchContent", "fetchPage", "fetchPages", "fetchImage", "fetchImages",
   "fetchDocument", "fetchDocuments"}

\* what a method of the client asks of this.fetchContent
MethodRequest(op, queries) ==
  CASE op.name = "fetchContent"   -> [content |-> op.arg, queries |-> queries]
    [] op.name = "fetchPage"      -> fetchPage(op.arg, queries)
    [] op.name = "fetchPages"     -> fetchPages(queries)
    [] op.name = "fetchImage"     -> fetchImage(op.arg, queries)
    [] op.name = "fetchImages"    -> fetchImages(queries)
    [] op.name = "fetchDocument"  -> fetchDocument(op.arg, queries)
    [] op.name = "fetchDocuments" -> fetchDocuments(queries)

\* every method, fetchContent and the list fetches included, inside the
\* try/catch of the lookups by id
MethodThenAllCatch(op, fcOut) ==
  CASE op.name = "fetchPage"     -> fetchPageThen(op.arg, fcOut)
    [] op.name = "fetchImage"    -> fetchImageThen(fcOut)
    [] op.name = "fetchDocument" -> fetchDocumentThen(fcOut)
    [] OTHER                     -> lookupByIdThen("Not found", fcOut)

\* what a method of the client makes of the outcome of this.fetchContent
MethodThen(op, fcOut) ==
  CASE op.name = "fetchPage"     -> fetchPageThen(op.arg, fcOut)
    [] op.name = "fetchImage"    -> fetchImageThen(fcOut)
    [] op.name = "fetchDocument" -> fetchDocumentThen(fcOut)
    [] OTHER                     -> [out |-> fcOut, log |-> <<>>]

-----------------------------------------------------------------------------
(* Calls: each caller runs one operation at a time *)

Callers == {1, 2}

NoOp == [name |-> "", arg |-> Undefined, method |-> Undefined, data |-> Undefined,
         baseURL |-> Undefined, apiPath |-> Undefined]

\* fc, fr, fetched, resp, frOut, fcOut and out hold at most one element: the
\* arguments of the calls of fetchContent and fetchRequest, the calls of fetch,
\* the response received, and the outcomes of fetchRequest, of fetchContent
\* and of the operation
IdleCall ==
  [pc |-> "idle", op |-> NoOp, queries |-> Undefined, headers |-> Undefined,
   cache |-> Undefined, fc |-> <<>>, fr |-> <<>>, fetched |-> <<>>, resp |-> <<>>,
   jsonCalls |-> 0, console |-> <<>>, frOut |-> <<>>, fcOut |-> <<>>, out |-> <<>>]

Ids == {Num(i) : i \in 1..MaxId}

Families == {"pages", "images", "documents"}

ContentPaths ==
  {Str(<<f>>) : f \in Families} \cup {ContentPath(f, id) : f \in Families, id \in Ids}

ClientCalls ==
  {[NoOp EXCEPT !.name = "fetchContent", !.arg = p] : p \in ContentPaths}
    \cup {[NoOp EXCEPT !.name = "fetchPage", !.arg = x] : x \in Ids \cup {Str(<<"home">>)}}
    \cup {[NoOp EXCEPT !.name = n, !.arg = id] : n \in {"fetchImage", "fetchDocument"}, id \in Ids}
    \cup {[NoOp EXCEPT !.name = n] : n \in {"fetchPages", "fetchImages", "fetchDocuments"}}

OrderParts == {<<>>, << <<"order", Str(<<>>)>> >>, << <<"order", Str(<<"random">>)>> >>}

OffsetParts == {<<>>, << <<"offset", Num(0)>> >>, << <<"offset", Num(5)>> >>}

TreeParts ==
  {<<>>, << <<"child_of", Num(0)>> >>, << <<"child_of", Num(1)>> >>,
   << <<"ancestor_of", Num(1)>> >>, << <<"decendant_of", Num(1)>> >>}

SlugParts == {<<>>, << <<"slug", Str(<<"about">>)>> >>}

\* the filters of the calls: undefined, or any choice of an order, an offset,
\* a tree-relation key and a slug
CFilters ==
  {Undefined} \cup
    {Obj(o \o f \o t \o s) :
       o \in OrderParts, f \in OffsetParts, t \in TreeParts, s \in SlugParts}

CallHeaders == {Undefined, Obj(<< <<"X-Call", Str(<<"1">>)>> >>)}

CallCaches == {Undefined, Str(<<"reload">>)}

Bodies ==
  {Null,
   Obj(<< <<"id", Num(1)>> >>),
   Obj(<< <<"items", Arr(<<>>)>> >>),
   Obj(<< <<"items", Arr(<<Obj(<< <<"id", Num(1)>> >>), Obj(<< <<"id", Num(2)>> >>)>>)>> >>)}

NetworkError(c) == ErrorObj("TypeError", "Failed to fetch", "", c, "fetch")

ParseError(c) == ErrorObj("SyntaxError", "Unexpected token", "", c, "response.json")

StringifyError(c) == ErrorObj("TypeError", "Converting circular structure", "", c, "JSON.stringify")

\* a failed fetchRequest tried once more before its failure is passed up
SettledAfterRetry(call, frOutcome, logs) ==
  IF frOutcome.kind = "throw" /\ call.fr /= <<>> /\ Len(call.fetched) < 2
    THEN [call EXCEPT !.pc = "fetching", !.console = @ \o logs,
                      !.fetched = @ \o <<fetchRequest(call.fr[1])>>]
    ELSE LET fcOutcome == IF call.fc /= <<>> THEN <<frOutcome>> ELSE <<>>
             fin == IF call.op.name \in ClientOps
                      THEN MethodThen(call.op, frOutcome)
                      ELSE [out |-> frOutcome, log |-> <<>>]
         IN [call EXCEPT !.pc = "done", !.frOut = <<frOutcome>>, !.fcOut = fcOutcome,
                         !.out = <<fin.out>>, !.console = @ \o logs \o fin.log]

\* the call with the outcome of fetchRequest passed up through fetchContent
\* and the method of the client to the caller
Settled(call, frOutcome, logs) ==
  LET fcOutcome == IF call.fc /= <<>> THEN <<frOutcome>> ELSE <<>>
      fin == IF call.op.name \in ClientOps
               THEN MethodThen(call.op, frOutcome)
               ELSE [out |-> frOutcome, log |-> <<>>]
  IN [call EXCEPT !.pc = "done", !.frOut = <<frOutcome>>, !.fcOut = fcOutcome,
                  !.out = <<fin.out>>, !.console = @ \o logs \o fin.log]

\* the call after fetchContent ran up to its await: rejected by validation, or
\* waiting for fetch
Resolved(call, a, c) ==
  LET r == fetchContent(a, c)
      started == [call EXCEPT !.fc = <<a>>]
  IN IF r.kind = "throw"
       THEN LET fin == IF call.op.name \in ClientOps
                         THEN MethodThen(call.op, r)
                         ELSE [out |-> r, log |-> <<>>]
            IN [started EXCEPT !.pc = "done", !.fcOut = <<r>>, !.out = <<fin.out>>,
                               !.console = fin.log]
       ELSE [started EXCEPT !.pc = "fetching", !.fr = <<r.val>>,
                            !.fetched = <<fetchRequest(r.val)>>]

\* a method that keeps the headers it was given as the headers of the client
CMSClient_afterKeepsHeaders(this, headers, cache) ==
  [this EXCEPT !.v.headers = OrElse(headers, this.v.headers)]

\* a method that keeps the cache policy it was given as that of the client
CMSClient_afterKeepsCache(this, headers, cache) ==
  [this EXCEPT !.v.cache = OrElse(cache, this.v.cache)]

\* the client after a call of one of its methods: the methods read
\* this.baseURL, this.apiPath, this.headers and this.cache and assign none
CMSClient_after(this, headers, cache) == this

\* a caller calls a method of the client, with arguments of the given sets
CallClientWith(c, ops, filters, hs, ks) ==
  /\ calls[c].pc = "idle"
  /\ client.t = "client"
  /\ \E op \in ops, q \in filters, h \in hs, k \in ks :
       LET call == [IdleCall EXCEPT !.op = op, !.queries = q, !.headers = h, !.cache = k]
           m == MethodRequest(op, q)
           a == CMSClient_fetchContent(client, m.content, m.queries, h, k)
       IN /\ calls' = [calls EXCEPT ![c] = Resolved(call, a, c)]
          /\ client' = CMSClient_after(client, h, k)
  /\ UNCHANGED <<ctorIn, ctorError>>
  /\ UNCHANGED qsVars
  /\ UNCHANGED mediaVars

\* a caller calls a method of the client
CallClient(c) == CallClientWith(c, ClientCalls, CFilters, CallHeaders, CallCaches)

\* a caller calls the exported function fetchContent
CallFetchContent(c) ==
  /\ calls[c].pc = "idle"
  /\ \E p \in ContentPaths, q \in CFilters, h \in CallHeaders, k \in CallCaches :
       LET op == [NoOp EXCEPT !.name = "lib.fetchContent", !.arg = p,
                              !.baseURL = Str(<<"https://cms">>),
                              !.apiPath = Str(<<"/", "api">>)]
           call == [IdleCall EXCEPT !.op = op, !.queries = q, !.headers = h, !.cache = k]
           a == FcArgs(op.baseURL, op.apiPath, p, q, h, k)
       IN calls' = [calls EXCEPT ![c] = Resolved(call, a, c)]
  /\ UNCHANGED <<client, ctorIn, ctorError>>
  /\ UNCHANGED qsVars
  /\ UNCHANGED mediaVars

\* a caller calls the exported function fetchRequest
CallFetchRequest(c) ==
  /\ calls[c].pc = "idle"
  /\ \E m \in {GET, POST}, d \in {Null, Obj(<< <<"title", Str(<<"x">>)>> >>), Circular},
        h \in CallHeaders, k \in CallCaches :
       LET op == [NoOp EXCEPT !.name = "lib.fetchRequest",
                              !.arg = Str(<<"https://cms", "/", "api">>),
                              !.method = m, !.data = d]
           a == FrArgs(m, op.arg, d, h, k)
           call == [IdleCall EXCEPT !.op = op, !.headers = h, !.cache = k, !.fr = <<a>>]
       IN calls' = [calls EXCEPT ![c] =
            IF m /= GET /\ StringifyThrows(d)
              THEN LET r == fetchRequestCatch(a, StringifyError(c), c)
                   IN Settled(call, r.out, r.log)
              ELSE [call EXCEPT !.pc = "fetching", !.fetched = <<fetchRequest(a)>>]]
  /\ UNCHANGED <<client, ctorIn, ctorError>>
  /\ UNCHANGED qsVars
  /\ UNCHANGED mediaVars

\* fetch settles: it rejects, or resolves with a response that is ok or not
FetchSettles(c) ==
  /\ calls[c].pc = "fetching"
  /\ LET call == calls[c]
         a == call.fr[1]
     IN \/ LET r == fetchRequestCatch(a, NetworkError(c), c)
           IN calls' = [calls EXCEPT ![c] = Settled(call, r.out, r.log)]
        \/ \E ok \in BOOLEAN :
             LET response == [ok |-> ok]
                 r == fetchRequestOnResponse(a, response, c)
                 got == [call EXCEPT !.resp = <<response>>]
             IN calls' = [calls EXCEPT ![c] =
                  IF r.parse
                    THEN [got EXCEPT !.pc = "parsing", !.jsonCalls = @ + 1]
                    ELSE Settled(got, r.out, r.log)]
  /\ UNCHANGED <<client, ctorIn, ctorError>>
  /\ UNCHANGED qsVars
  /\ UNCHANGED mediaVars

\* response.json() settles: it resolves with the parsed body or rejects
JsonSettles(c) ==
  /\ calls[c].pc = "parsing"
  /\ LET call == calls[c]
         a == call.fr[1]
     IN \/ \E body \in Bodies :
             calls' = [calls EXCEPT ![c] = Settled(call, Return(body), <<>>)]
        \/ LET r == fetchRequestCatch(a, ParseError(c), c)
           IN calls' = [calls EXCEPT ![c] = Settled(call, r.out, r.log)]
  /\ UNCHANGED <<client, ctorIn, ctorError>>
  /\ UNCHANGED qsVars
  /\ UNCHANGED mediaVars

\* the caller takes the outcome; it may call again
Consume(c) ==
  /\ calls[c].pc = "done"
  /\ calls' = [calls EXCEPT ![c] = IdleCall]
  /\ UNCHANGED <<client, ctorIn, ctorError>>
  /\ UNCHANGED qsVars
  /\ UNCHANGED mediaVars

\* the calls of two callers at a time: a list fetch, a lookup by slug and a
\* lookup by id, with no filter, a filter that fetchContent rejects and a
\* filter with a slug
PairCalls ==
  {[NoOp EXCEPT !.name = "fetchPages"],
   [NoOp EXCEPT !.name = "fetchPage", !.arg = Str(<<"home">>)],
   [NoOp EXCEPT !.name = "fetchImage", !.arg = Num(1)]}

PairFilters ==
  {Undefined,
   Obj(<< <<"order", Str(<<"random">>)>>, <<"offset", Num(5)>> >>),
   Obj(<< <<"slug", Str(<<"about">>)>> >>)}

CallClientOfPair(c) == CallClientWith(c, PairCalls, PairFilters, CallHeaders, CallCaches)

\* the clients a program holds after a successful construction
Clients ==
  {CMSClient_constructor(o).val :
     o \in {x \in [baseURL : {Str(<<"https://cms">>)}, mediaBaseURL : {Undefined},
                   apiPath : {Str(<<"/", "api">>)}, headers : ClientHeaders,
                   cache : ClientCaches] :
              CMSClient_constructor(x).kind = "return"}}

\* the options those clients were constructed from
ClientInputs ==
  {x \in [baseURL : {Str(<<"https://cms">>)}, mediaBaseURL : {Undefined},
          apiPath : {Str(<<"/", "api">>)}, headers : ClientHeaders,
          cache : ClientCaches] :
     CMSClient_constructor(x).kind = "return"}

\* the program has constructed its client
Init ==
  /\ qsIn = Undefined
  /\ qsOut = <<>>
  /\ qsDone = FALSE
  /\ ctorIn \in ClientInputs
  /\ client = CMSClient_constructor(ctorIn).val
  /\ ctorError = <<>>
  /\ calls = [c \in Callers |-> IdleCall]
  /\ mediaIn = Undefined
  /\ mediaOut = <<>>

InitCtor ==
  /\ qsIn = Undefined
  /\ qsOut = <<>>
  /\ qsDone = FALSE
  /\ client = NoClient
  /\ ctorIn \in Options
  /\ ctorError = <<>>
  /\ calls = [c \in Callers |-> IdleCall]
  /\ mediaIn = Undefined
  /\ mediaOut = <<>>

-----------------------------------------------------------------------------
(* Media resolver *)

ImageType == Str(<<"wagtailimages.Image">>)

DocumentType == Str(<<"wagtaildocs.Document">>)

\* the origins (scheme and host) of the absolute URLs of the model; an origin
\* is one symbol of a string
Origins == {"https://cms", "https://cdn", "https://files"}

\* new URL(x) without a base parses x only when it is an absolute URL
URLparses(x) == x.t = "string" /\ x.v /= <<>> /\ x.v[1] \in Origins

RECURSIVE UpToSearch(_)
\* the symbols of a path up to the query or the fragment
UpToSearch(s) ==
  IF s = <<>> \/ s[1] \in {"?", "#"} THEN <<>> ELSE <<s[1]>> \o UpToSearch(Tail(s))

\* a pathname that keeps the query and the fragment
URLpathnameWithSearch(x) == IF Len(x.v) = 1 THEN <<"/">> ELSE Tail(x.v)

\* new URL(x).pathname: what follows the origin, up to the query or the
\* fragment; "/" when nothing follows
URLpathname(x) ==
  LET path == UpToSearch(Tail(x.v)) IN IF path = <<>> THEN <<"/">> ELSE path

InvalidURL == ErrorObj("TypeError", "Invalid URL", "", 0, "new URL")

\* the type switch with the download_url of a document returned as it is
mediaSrcDocumentAsIs(base, media) ==
  LET type == Get(media, "type")
      download_url == Get(media, "download_url")
  IN IF type = ImageType THEN Return(Str(base.v \o ToStr(download_url)))
     ELSE IF type = DocumentType THEN Return(download_url)
     ELSE Return(Undefined)

\* the type switch with the detail_url of a document read when it has no
\* download_url
mediaSrcFromDetailUrl(base, media) ==
  LET type == Get(media, "type")
      download_url == Get(media, "download_url")
      url == IF Truthy(download_url) THEN download_url ELSE Get(media, "detail_url")
  IN IF type = ImageType THEN Return(Str(base.v \o ToStr(download_url)))
     ELSE IF type = DocumentType
       THEN IF URLparses(url)
              THEN Return(Str(base.v \o URLpathname(url)))
              ELSE Throw(InvalidURL)
     ELSE Return(Undefined)

\* the type switch of getMediaSrc over the base it prefixes
mediaSrc(base, media) ==
  LET type == Get(media, "type")
      download_url == Get(media, "download_url")
  IN IF type = ImageType THEN Return(Str(base.v \o ToStr(download_url)))
     ELSE IF type = DocumentType
       THEN IF URLparses(download_url)
              THEN Return(Str(base.v \o URLpathname(download_url)))
              ELSE Throw(InvalidURL)
     ELSE Return(Undefined)

\* the base of the media URLs: mediaBaseURL when the client has one
MediaBase(this) == OrElse(this.v.mediaBaseURL, this.v.baseURL)

getMediaSrc(this, media) == mediaSrc(MediaBase(this), media)

MediaTypes == {ImageType, DocumentType, Str(<<"wagtailvideos.Video">>)}

DetailUrl == Str(<<"https://cms", "/", "api", "/", "documents", "/", "1", "/">>)

DownloadUrls ==
  {Str(<<"/", "images", "/", "a.jpg">>),
   Str(<<"https://files", "/", "docs", "/", "a.pdf">>),
   Str(<<"https://files", "/", "docs", "/", "a.pdf", "?", "v=1">>),
   Str(<<"https://files">>)}

\* media items, with and without a download_url
MediaItems ==
  {Obj(<< <<"type", t>>, <<"detail_url", DetailUrl>> >>) : t \in MediaTypes}
    \cup {Obj(<< <<"type", t>>, <<"detail_url", DetailUrl>>, <<"download_url", d>> >>) :
            t \in MediaTypes, d \in DownloadUrls}

\* the clients with and without a mediaBaseURL
MediaClients ==
  {CMSClient_constructor(o).val :
     o \in {x \in [baseURL : {Str(<<"https://cms">>)},
                   mediaBaseURL : {Undefined, Str(<<"https://cdn">>)},
                   apiPath : {Str(<<"/", "api">>)}, headers : ClientHeaders,
                   cache : ClientCaches] :
              CMSClient_constructor(x).kind = "return"}}

InitMedia ==
  /\ qsIn = Undefined
  /\ qsOut = <<>>
  /\ qsDone = FALSE
  /\ client \in MediaClients
  /\ ctorIn = NoOptions
  /\ ctorError = <<>>
  /\ calls = [c \in Callers |-> IdleCall]
  /\ mediaIn \in MediaItems
  /\ mediaOut = <<>>

\* the program calls getMediaSrc of its client on a media item
CallGetMediaSrc ==
  /\ mediaOut = <<>>
  /\ mediaOut' = <<getMediaSrc(client, mediaIn)>>
  /\ UNCHANGED mediaIn
  /\ UNCHANGED clientVars
  /\ UNCHANGED qsVars

-----------------------------------------------------------------------------

(* Inputs of the query serializer *)

QKeys == {"type", "limit", "fields"}

Elems == {Str(<<"a">>), Str(<<"b">>)}

Lists == UNION {[1..n -> Elems] : n \in 0..MaxList}

QValues ==
  {Undefined, Str(<<>>), Str(<<"x">>), Num(0), Num(10), Bool(FALSE), Bool(TRUE)}
    \cup {Arr(l) : l \in Lists}

\* the entry lists of at most n entries with pairwise different keys
EntryLists(keys, values, n) ==
  UNION {{e \in [1..m -> keys \X values] :
            \A i, j \in 1..m : i /= j => e[i][1] /= e[j][1]} : m \in 0..n}

QFilters == {Undefined} \cup {Obj(e) : e \in EntryLists(QKeys, QValues, MaxKeys)}

InitQS ==
  /\ qsIn \in QFilters
  /\ qsOut = <<>>
  /\ qsDone = FALSE
  /\ client = NoClient
  /\ ctorIn = NoOptions
  /\ ctorError = <<>>
  /\ calls = [c \in Callers |-> IdleCall]
  /\ mediaIn = Undefined
  /\ mediaOut = <<>>

CallBuildQueryString ==
  /\ ~qsDone
  /\ qsOut' = buildQueryString(qsIn)
  /\ qsDone' = TRUE
  /\ UNCHANGED qsIn
  /\ UNCHANGED clientVars
  /\ UNCHANGED mediaVars

-----------------------------------------------------------------------------
(* Properties of the query serializer, checked under SpecQS *)

RECURSIVE SplitOn(_, _)
\* the pieces of string s between occurrences of the symbol sep; none for ""
SplitOn(s, sep) ==
  IF s = <<>> THEN <<>>
  ELSE IF \A i \in 1..Len(s) : s[i] /= sep THEN <<s>>
  ELSE LET i == CHOOSE j \in 1..Len(s) :
                  s[j] = sep /\ \A k \in 1..(j - 1) : s[k] /= sep
       IN <<SubSeq(s, 1, i - 1)>> \o
            (IF i = Len(s) THEN <<(<<>>)>> ELSE SplitOn(SubSeq(s, i + 1, Len(s)), sep))

QsPairs == SplitOn(qsOut, "&")

IsScalar(x) == x.t \in {"string", "number", "boolean"}

\* the position of key k among the entries of the filter qsIn
KeyPos(k) == CHOOSE i \in 1..Len(qsIn.v) : qsIn.v[i][1] = k

\* C5: buildQueryString returns the empty string for an undefined filter and
\* for an empty mapping.
C5_EmptyForUndefinedAndEmpty ==
  (qsDone /\ (qsIn = Undefined \/ qsIn = Obj(<<>>))) => qsOut = <<>>

C5_Witness == qsDone /\ qsIn = Obj(<<>>) /\ qsOut = <<>>

\* C6: a key whose value is undefined or "" contributes no pair (its name is
\* nowhere in the output); every other scalar-valued key contributes exactly
\* one pair key=value.
C6_DroppedAndRendered ==
  (qsDone /\ qsIn.t = "object") =>
    \A e \in 1..Len(qsIn.v) :
      LET key == qsIn.v[e][1]
          value == qsIn.v[e][2]
      IN /\ (value = Undefined \/ value = Str(<<>>)) =>
              \A i \in 1..Len(qsOut) : qsOut[i] /= key
         /\ (IsScalar(value) /\ value /= Str(<<>>)) =>
              Cardinality({i \in 1..Len(QsPairs) :
                             QsPairs[i] = <<key, "=">> \o ScalarToStr(value)}) = 1

C6_Witness ==
  /\ qsDone
  /\ qsIn = Obj(<< <<"type", Str(<<>>)>>, <<"limit", Num(10)>> >>)
  /\ qsOut = <<"limit", "=", "1", "0">>

\* C7: the pairs appear in the insertion order of the filter's keys, joined
\* with & with no leading or trailing separator, and a list value is rendered
\* as its elements joined with , in their original order.
C7_OrderAndJoin ==
  (qsDone /\ qsIn.t = "object") =>
    /\ qsOut /= <<>> => (qsOut[1] /= "&" /\ qsOut[Len(qsOut)] /= "&")
    /\ \A i \in 1..Len(QsPairs) :
         /\ Len(QsPairs[i]) >= 2
         /\ HasKey(qsIn, QsPairs[i][1])
         /\ QsPairs[i][2] = "="
    /\ \A i, j \in 1..Len(QsPairs) :
         i < j => KeyPos(QsPairs[i][1]) < KeyPos(QsPairs[j][1])
    /\ \A e \in 1..Len(qsIn.v) :
         LET key == qsIn.v[e][1]
             list == qsIn.v[e][2]
         IN list.t = "array" =>
              \E i \in 1..Len(QsPairs) :
                LET pair == QsPairs[i]
                    n == Len(list.v)
                IN /\ pair[1] = key
                   /\ Len(pair) = 2 + (IF n = 0 THEN 0 ELSE 2 * n - 1)
                   /\ \A m \in 1..n : pair[2 + 2 * m - 1] = list.v[m].v[1]
                   /\ \A m \in 1..(n - 1) : pair[2 + 2 * m] = ","

C7_Witness ==
  /\ qsDone
  /\ qsIn = Obj(<< <<"limit", Num(10)>>,
                   <<"fields", Arr(<<Str(<<"a">>), Str(<<"b">>)>>)>> >>)
  /\ qsOut = <<"limit", "=", "1", "0", "&", "fields", "=", "a", ",", "b">>

\* C26: every pair in the output of buildQueryString has a non-empty value:
\* for every filter, those with list values and an empty list among them
\* included, the output has no pair key= with nothing after the equals sign.
C26_NoPairWithEmptyValue ==
  qsDone =>
    \A i \in 1..Len(QsPairs) :
      /\ Len(QsPairs[i]) >= 3
      /\ QsPairs[i][2] = "="

-----------------------------------------------------------------------------
(* Properties of the content resolver, checked under Spec *)

TreeKeys == {"child_of", "ancestor_of", "decendant_of"}

HasTreeKey(q) == \E k \in TreeKeys : HasKey(q, k)

HasOrderAndOffset(q) == HasKey(q, "order") /\ HasKey(q, "offset")

\* the content family of a content path: its first segment
Family(content) == content.v[1]

ThrewMessage(outcome, message) ==
  /\ outcome /= <<>>
  /\ outcome[1].kind = "throw"
  /\ outcome[1].val.t = "error"
  /\ outcome[1].val.v.cls = "Error"
  /\ outcome[1].val.v.message = message

\* fetchContent threw one of its two validation errors
RejectedByValidation(call) ==
  ThrewMessage(call.fcOut, OrderOffsetMessage) \/ ThrewMessage(call.fcOut, TreeMessage)

\* C1: whenever the filter given to fetchContent has both an order and an
\* offset key, whatever their values, fetchContent rejects with the
\* order/offset error and makes no transport request.
C1_OrderWithOffsetAlwaysRejected ==
  \A c \in Callers :
    LET call == calls[c]
    IN (call.fc /= <<>> /\ HasOrderAndOffset(call.fc[1].queries)) =>
         /\ ThrewMessage(call.fcOut, OrderOffsetMessage)
         /\ call.fr = <<>>
         /\ call.fetched = <<>>

\* C2: whenever the filter has a tree-relation key, whatever its value, and
\* the content path is not in the pages family, fetchContent rejects with the
\* tree-position error and makes no transport request.
C2_TreeKeyOffPagesAlwaysRejected ==
  \A c \in Callers :
    LET call == calls[c]
    IN (/\ call.fc /= <<>>
        /\ HasTreeKey(call.fc[1].queries)
        /\ Family(call.fc[1].content) /= "pages") =>
         /\ ThrewMessage(call.fcOut, TreeMessage)
         /\ call.fr = <<>>
         /\ call.fetched = <<>>

\* C3: for every content path of the pages family, pages and pages/{id}, a
\* filter with a tree-relation key and no order+offset pair is accepted: no
\* tree-position error is raised and the request is issued.
C3_TreeKeyAcceptedOnPagesFamily ==
  \A c \in Callers :
    LET call == calls[c]
    IN (/\ call.fc /= <<>>
        /\ Family(call.fc[1].content) = "pages"
        /\ HasTreeKey(call.fc[1].queries)
        /\ ~HasOrderAndOffset(call.fc[1].queries)) =>
         /\ ~ThrewMessage(call.fcOut, TreeMessage)
         /\ Len(call.fetched) = 1

\* C4: for every input that passes validation, fetchContent issues one GET to
\* {baseURL}{apiPath}/{contentPath}/?{buildQueryString(filter)} with an
\* empty-object body and the headers and cache policy it was given, and
\* returns the transport's parsed body unchanged.
C4_ValidInputIssuesOneGet ==
  \A c \in Callers :
    LET call == calls[c]
    IN (call.fc /= <<>> /\ ~RejectedByValidation(call)) =>
         LET a == call.fc[1]
         IN /\ Len(call.fr) = 1
            /\ Len(call.fetched) = 1
            /\ call.fr[1].method = Str(<<"GET">>)
            /\ call.fr[1].url.v =
                 a.baseURL.v \o a.apiPath.v \o <<"/">> \o a.content.v \o <<"/", "?">>
                   \o buildQueryString(a.queries)
            /\ call.fetched[1].url = call.fr[1].url
            /\ call.fr[1].data = Obj(<<>>)
            /\ call.fr[1].headers = a.headers
            /\ call.fetched[1].headers = a.headers
            /\ call.fr[1].cache =
                 (IF a.cache = Undefined THEN Str(<<"force-cache">>) ELSE a.cache)
            /\ call.fetched[1].cache = call.fr[1].cache
            /\ (call.frOut /= <<>> /\ call.frOut[1].kind = "return") =>
                 call.fcOut = call.frOut

C4_Witness ==
  \E c \in Callers :
    LET call == calls[c]
    IN /\ call.pc = "done"
       /\ call.op.name = "fetchContent"
       /\ call.fc /= <<>>
       /\ call.fc[1].queries = Obj(<< <<"order", Str(<<"random">>)>>, <<"child_of", Num(1)>> >>)
       /\ call.fc[1].headers = Obj(<< <<"X-Call", Str(<<"1">>)>> >>)
       /\ call.fc[1].cache = Str(<<"reload">>)
       /\ call.fetched /= <<>>
       /\ call.fetched[1].url.v =
            <<"https://cms", "/", "api", "/", "pages", "/", "?",
              "order", "=", "random", "&", "child_of", "=", "1">>
       /\ call.fcOut = <<Return(Obj(<< <<"items", Arr(<<>>)>> >>))>>

-----------------------------------------------------------------------------
(* Properties of client construction, checked under SpecCtor *)

TrailingSlash(x) == x.t = "string" /\ x.v /= <<>> /\ x.v[Len(x.v)] = "/"

AnyTrailingSlash(o) ==
  TrailingSlash(o.baseURL) \/ TrailingSlash(o.apiPath) \/ TrailingSlash(o.mediaBaseURL)

Constructed == client.t = "client" \/ ctorError /= <<>>

-----------------------------------------------------------------------------
(* Properties of the transport wrapper and of the lookups, checked under Spec *)

\* C9: every failure of fetchRequest is a FetchError with code REQUEST_FAILED
\* or UNEXPECTED_ERROR; the code is REQUEST_FAILED exactly when a response
\* arrived with a non-success status, and then the body is not parsed; every
\* other failure has code UNEXPECTED_ERROR.
C9_FailureCodes ==
  \A c \in Callers :
    LET call == calls[c]
        nonSuccess == call.resp /= <<>> /\ ~call.resp[1].ok
    IN /\ (call.frOut /= <<>> /\ call.frOut[1].kind = "throw") =>
            LET e == call.frOut[1].val
            IN /\ e.t = "error"
               /\ e.v.cls = "FetchError"
               /\ e.v.code \in {"REQUEST_FAILED", "UNEXPECTED_ERROR"}
               /\ e.v.code = "REQUEST_FAILED" <=> nonSuccess
               /\ e.v.code = "REQUEST_FAILED" => call.jsonCalls = 0
       /\ nonSuccess =>
            /\ call.jsonCalls = 0
            /\ call.frOut /= <<>>
            /\ call.frOut[1].kind = "throw"

C9_Witness ==
  \E c \in Callers :
    LET call == calls[c]
    IN /\ call.pc = "done"
       /\ call.resp = <<[ok |-> TRUE]>>
       /\ call.jsonCalls = 1
       /\ call.frOut /= <<>>
       /\ call.frOut[1].kind = "throw"
       /\ call.frOut[1].val.v.code = "UNEXPECTED_ERROR"

NumericLookup(op) ==
  \/ op.name = "fetchPage" /\ op.arg.t = "number"
  \/ op.name \in {"fetchImage", "fetchDocument"}

LookupMessage(op) ==
  CASE op.name = "fetchPage"     -> Str(<<"Page not found">>)
    [] op.name = "fetchImage"    -> Str(<<"Image not found">>)
    [] op.name = "fetchDocument" -> Str(<<"Document not found">>)

\* C10: in a lookup by numeric id, a successful fetchContent is returned
\* unchanged, and a fetchContent that fails with a FetchError makes the lookup
\* return, not throw, a NotFoundResult whose data is that error object and
\* whose message names the family.
C10_NumericLookupOutcome ==
  \A c \in Callers :
    LET call == calls[c]
    IN (call.pc = "done" /\ NumericLookup(call.op)) =>
         /\ call.fcOut /= <<>>
         /\ call.out /= <<>>
         /\ call.fcOut[1].kind = "return" => call.out = call.fcOut
         /\ (call.fcOut[1].kind = "throw" /\ call.fcOut[1].val.v.cls = "FetchError") =>
              /\ call.out[1].kind = "return"
              /\ call.out[1].val.t = "object"
              /\ Len(call.out[1].val.v) = 2
              /\ Get(call.out[1].val, "message") = LookupMessage(call.op)
              /\ Get(call.out[1].val, "data") = call.fcOut[1].val

C10_Witness ==
  \E c \in Callers :
    LET call == calls[c]
    IN /\ call.pc = "done"
       /\ call.op.name = "fetchImage"
       /\ call.fcOut /= <<>>
       /\ call.fcOut[1].kind = "throw"
       /\ call.fcOut[1].val.v.code = "REQUEST_FAILED"
       /\ call.out /= <<>>
       /\ call.out[1].kind = "return"
       /\ Get(call.out[1].val, "message") = Str(<<"Image not found">>)
       /\ Get(call.out[1].val, "data") = call.fcOut[1].val

-----------------------------------------------------------------------------
(* Properties of the lookups and of the list fetches, checked under Spec *)

FilterKeys(q) == IF q.t = "object" THEN {q.v[i][1] : i \in 1..Len(q.v)} ELSE {}

TextualLookup(op) == op.name = "fetchPage" /\ op.arg.t = "string"

HasItems(body) ==
  /\ body.t = "object"
  /\ \E i \in 1..Len(body.v) :
       body.v[i][1] = "items" /\ body.v[i][2].t = "array" /\ Len(body.v[i][2].v) > 0

FirstItem(body) ==
  LET i == CHOOSE j \in 1..Len(body.v) : body.v[j][1] = "items" IN body.v[i][2].v[1]

\* C11: fetchPage with a textual idOrSlug asks fetchContent for the collection
\* `pages` with the slug added to the filter; when the returned list has at
\* least one item it returns the first item, and when it has no items or no
\* items field it returns a NotFoundResult with message 'Page not found' whose
\* data is the returned list itself.
C11_TextualLookupOutcome ==
  \A c \in Callers :
    LET call == calls[c]
    IN (call.pc = "done" /\ TextualLookup(call.op)) =>
         /\ call.fc /= <<>>
         /\ call.fc[1].content = Str(<<"pages">>)
         /\ FilterKeys(call.fc[1].queries) = FilterKeys(call.queries) \cup {"slug"}
         /\ \A k \in FilterKeys(call.queries) :
              Get(call.fc[1].queries, k) = Get(call.queries, k)
         /\ "slug" \notin FilterKeys(call.queries) =>
              Get(call.fc[1].queries, "slug") = call.op.arg
         /\ (call.fcOut /= <<>> /\ call.fcOut[1].kind = "return") =>
              LET body == call.fcOut[1].val
              IN IF HasItems(body)
                   THEN call.out = <<Return(FirstItem(body))>>
                   ELSE /\ call.out /= <<>>
                        /\ call.out[1].kind = "return"
                        /\ call.out[1].val =
                             Obj(<< <<"message", Str(<<"Page not found">>)>>,
                                    <<"data", body>> >>)

C11_Witness ==
  \E c \in Callers :
    LET call == calls[c]
    IN /\ call.pc = "done"
       /\ TextualLookup(call.op)
       /\ call.fetched /= <<>>
       /\ call.fcOut = <<Return(Obj(<< <<"items", Arr(<<>>)>> >>))>>
       /\ call.out /= <<>>
       /\ Get(call.out[1].val, "data") = Obj(<< <<"items", Arr(<<>>)>> >>)

-----------------------------------------------------------------------------

IdentityLookup(op) == op.name \in {"fetchPage", "fetchImage", "fetchDocument"}

\* C12: the lookups by identity never throw: every call of fetchPage (with a
\* textual or a numeric idOrSlug), fetchImage and fetchDocument resolves to a
\* value, whatever failure fetchContent produces.
C12_LookupsNeverThrow ==
  \A c \in Callers :
    LET call == calls[c]
    IN (call.pc = "done" /\ IdentityLookup(call.op)) =>
         /\ call.out /= <<>>
         /\ call.out[1].kind = "return"

\* C12, amended: the lookups by numeric id (fetchPage with a number,
\* fetchImage, fetchDocument) never throw, whatever failure fetchContent
\* produces; fetchPage with a textual idOrSlug throws exactly when fetchContent
\* fails, and then throws the error of fetchContent itself.
C12_OnlyNumericLookupsNeverThrow ==
  \A c \in Callers :
    LET call == calls[c]
    IN /\ (call.pc = "done" /\ NumericLookup(call.op)) =>
            /\ call.out /= <<>>
            /\ call.out[1].kind = "return"
       /\ (call.pc = "done" /\ TextualLookup(call.op)) =>
            /\ call.out /= <<>>
            /\ call.fcOut /= <<>>
            /\ call.out[1].kind = "throw" <=> call.fcOut[1].kind = "throw"
            /\ call.fcOut[1].kind = "throw" => call.out = call.fcOut

C12_Witness ==
  \E c \in Callers :
    LET call == calls[c]
    IN /\ call.pc = "done"
       /\ TextualLookup(call.op)
       /\ call.resp = <<[ok |-> FALSE]>>
       /\ call.out /= <<>>
       /\ call.out[1].kind = "throw"
       /\ call.out[1].val.v.cls = "FetchError"
       /\ call.out[1].val.v.code = "REQUEST_FAILED"

\* C13: a validation error raised by fetchContent reaches the caller of every
\* operation of the client as that same thrown error; no operation, fetchPage,
\* fetchImage and fetchDocument included, turns it into a return value.
C13_ValidationErrorAlwaysThrown ==
  \A c \in Callers :
    LET call == calls[c]
    IN (call.pc = "done" /\ call.op.name \in ClientOps /\ RejectedByValidation(call)) =>
         call.out = call.fcOut

\* C13, amended: a validation error raised by fetchContent reaches the caller
\* as that same thrown error from fetchContent, fetchPages, fetchImages,
\* fetchDocuments and fetchPage with a textual idOrSlug; the lookups by
\* numeric id catch it and return a NotFoundResult with message
\* 'An unknown error occurred:' whose data is the error.
C13_ValidationErrorThrownOrReported ==
  \A c \in Callers :
    LET call == calls[c]
    IN (call.pc = "done" /\ call.op.name \in ClientOps /\ RejectedByValidation(call)) =>
         /\ call.fetched = <<>>
         /\ IF NumericLookup(call.op)
              THEN call.out =
                     <<Return(Obj(<< <<"message", Str(<<"An unknown error occurred:">>)>>,
                                     <<"data", call.fcOut[1].val>> >>))>>
              ELSE call.out = call.fcOut

C13_Witness ==
  \E c \in Callers :
    LET call == calls[c]
    IN /\ call.pc = "done"
       /\ call.op.name = "fetchDocument"
       /\ ThrewMessage(call.fcOut, OrderOffsetMessage)
       /\ call.out /= <<>>
       /\ call.out[1].kind = "return"
       /\ Get(call.out[1].val, "data") = call.fcOut[1].val

ListFamily(op) ==
  CASE op.name = "fetchPages"     -> "pages"
    [] op.name = "fetchImages"    -> "images"
    [] op.name = "fetchDocuments" -> "documents"

ListFetch(op) == op.name \in {"fetchPages", "fetchImages", "fetchDocuments"}

\* C14: fetchPages, fetchImages and fetchDocuments make the call that
\* fetchContent of the client makes on the path `pages`, `images` and
\* `documents` with the same filter, headers and cache; they return its result
\* unchanged, an empty list included, and throw its failure as the same error.
C14_ListFetchIsFetchContent ==
  \A c \in Callers :
    LET call == calls[c]
    IN (call.pc /= "idle" /\ ListFetch(call.op)) =>
         /\ call.fc =
              <<CMSClient_fetchContent(client, Str(<<ListFamily(call.op)>>),
                                       call.queries, call.headers, call.cache)>>
         /\ call.fc[1].content = Str(<<ListFamily(call.op)>>)
         /\ call.fc[1].queries = call.queries
         /\ call.pc = "done" => (call.fcOut /= <<>> /\ call.out = call.fcOut)

C14_Witness ==
  \E c \in Callers :
    LET call == calls[c]
    IN /\ call.pc = "done"
       /\ call.op.name = "fetchImages"
       /\ call.fc /= <<>>
       /\ call.fc[1].content = Str(<<"images">>)
       /\ call.fetched /= <<>>
       /\ call.out = <<Return(Obj(<< <<"items", Arr(<<>>)>> >>))>>

\* C17: each call of an operation of the client (fetchContent, fetchPage,
\* fetchPages, fetchImage, fetchImages, fetchDocument, fetchDocuments) makes
\* at most one transport request, whatever its outcome: no retry follows a
\* failure and no second lookup follows an empty result.
C17_AtMostOneRequest ==
  \A c \in Callers :
    LET call == calls[c]
    IN call.op.name \in ClientOps =>
         /\ Len(call.fc) <= 1
         /\ Len(call.fr) <= 1
         /\ Len(call.fetched) <= 1
         /\ call.jsonCalls <= 1
         /\ call.fr = <<>> => call.fetched = <<>>

C17_Witness ==
  \E c \in Callers :
    LET call == calls[c]
    IN /\ call.pc = "done"
       /\ call.op.name = "fetchPages"
       /\ call.resp = <<>>
       /\ call.frOut /= <<>>
       /\ call.frOut[1].kind = "throw"
       /\ Len(call.fetched) = 1

\* C18: fetchRequest calls fetch exactly once per call; with method GET the
\* request carries no body, and with any other method it carries the JSON
\* serialization of the data argument.
C18_FetchExactlyOnce ==
  \A c \in Callers :
    LET call == calls[c]
    IN call.fr /= <<>> =>
         /\ Len(call.fetched) = 1
         /\ call.fr[1].method = GET => ~call.fetched[1].hasBody
         /\ call.fr[1].method /= GET =>
              /\ call.fetched[1].hasBody
              /\ call.fetched[1].body = JSONstringify(call.fr[1].data)

\* C18, amended: fetchRequest calls fetch at most once per call, and exactly
\* once unless the method is not GET and JSON.stringify throws on the data;
\* then fetch is not called and the call fails with UNEXPECTED_ERROR.  With
\* method GET the request carries no body, and with any other method it
\* carries the JSON serialization of the data argument.
C18_FetchOnceUnlessStringifyThrows ==
  \A c \in Callers :
    LET call == calls[c]
    IN call.fr /= <<>> =>
         LET a == call.fr[1]
         IN IF a.method /= GET /\ a.data.t = "circular"
              THEN /\ call.fetched = <<>>
                   /\ call.pc = "done"
                   /\ call.frOut /= <<>>
                   /\ call.frOut[1].kind = "throw"
                   /\ call.frOut[1].val.v.code = "UNEXPECTED_ERROR"
              ELSE /\ Len(call.fetched) = 1
                   /\ call.fetched[1].url = a.url
                   /\ call.fetched[1].method = a.method
                   /\ a.method = GET =>
                        /\ ~call.fetched[1].hasBody
                        /\ call.fetched[1].body = Undefined
                   /\ a.method /= GET =>
                        /\ call.fetched[1].hasBody
                        /\ call.fetched[1].body = JSONstringify(a.data)

C18_Witness ==
  \E c \in Callers :
    LET call == calls[c]
    IN /\ call.pc = "done"
       /\ call.op.name = "lib.fetchRequest"
       /\ call.fr /= <<>>
       /\ call.fr[1].method = POST
       /\ call.fr[1].data = Obj(<< <<"title", Str(<<"x">>)>> >>)
       /\ Len(call.fetched) = 1
       /\ call.fetched[1].hasBody
       /\ call.fetched[1].body.t = "string"
       /\ call.fetched[1].body.v[1] = "{"
       /\ call.frOut /= <<>>
       /\ call.frOut[1].kind = "return"

UnexpectedFailure(call) ==
  /\ call.frOut /= <<>>
  /\ call.frOut[1].kind = "throw"
  /\ call.frOut[1].val.v.code = "UNEXPECTED_ERROR"

\* the exception that the catch block of fetchRequest caught: the error of
\* the record it wrote
CaughtBy(call) ==
  LET i == CHOOSE j \in 1..Len(call.console) : call.console[j].group = "FETCH_REQUEST_ERROR"
  IN call.console[i].error

\* C19: when fetchRequest fails with UNEXPECTED_ERROR, the FetchError it
\* throws wraps the original cause: the exception that triggered the failure
\* is held by the error value.
C19_UnexpectedErrorHoldsCause ==
  \A c \in Callers :
    LET call == calls[c]
    IN UnexpectedFailure(call) => call.frOut[1].val.v.cause = CaughtBy(call)

\* C19, amended: when fetchRequest fails with UNEXPECTED_ERROR, the
\* FetchError it throws is a new error with the fixed message
\* 'An unexpected error occurred' and no cause; the exception that triggered
\* the failure is only written to the diagnostic record.
C19_UnexpectedErrorDropsCause ==
  \A c \in Callers :
    LET call == calls[c]
    IN UnexpectedFailure(call) =>
         LET e == call.frOut[1].val
         IN /\ e.v.cls = "FetchError"
            /\ e.v.message = "An unexpected error occurred"
            /\ e.v.cause = Undefined
            /\ \E j \in 1..Len(call.console) :
                 call.console[j].group = "FETCH_REQUEST_ERROR"
            /\ CaughtBy(call).v.cls /= "FetchError"
            /\ CaughtBy(call) /= e

C19_Witness ==
  \E c \in Callers :
    LET call == calls[c]
    IN /\ call.pc = "done"
       /\ UnexpectedFailure(call)
       /\ call.jsonCalls = 1
       /\ call.console /= <<>>
       /\ call.console[1].error.v.cls = "SyntaxError"
       /\ call.frOut[1].val.v.cause = Undefined

\* C20: a failure of fetchRequest passes through fetchContent and through
\* fetchContent of the client to the caller as the same error value, neither
\* wrapped nor replaced.
C20_TransportFailurePassesThrough ==
  \A c \in Callers :
    LET call == calls[c]
    IN (/\ call.pc = "done"
        /\ call.op.name \in {"fetchContent", "lib.fetchContent"}
        /\ call.frOut /= <<>>
        /\ call.frOut[1].kind = "throw") =>
         /\ call.fcOut = call.frOut
         /\ call.out = call.frOut

C20_Witness ==
  \E c \in Callers :
    LET call == calls[c]
    IN /\ call.pc = "done"
       /\ call.op.name = "fetchContent"
       /\ call.frOut /= <<>>
       /\ call.frOut[1].kind = "throw"
       /\ call.frOut[1].val.v.code = "REQUEST_FAILED"
       /\ call.out = call.frOut

\* fetchContent threw before it called fetchRequest
ThrewBeforeRequest(call) ==
  /\ call.fc /= <<>>
  /\ call.fr = <<>>
  /\ call.fcOut /= <<>>
  /\ call.fcOut[1].kind = "throw"

\* C21: both validation failures of fetchContent are plain errors and not
\* transport errors: the error raised is never a FetchError and has neither
\* the code REQUEST_FAILED nor the code UNEXPECTED_ERROR.
C21_ValidationErrorsArePlain ==
  \A c \in Callers :
    LET call == calls[c]
    IN ThrewBeforeRequest(call) =>
         LET e == call.fcOut[1].val
         IN /\ e.t = "error"
            /\ e.v.message \in {OrderOffsetMessage, TreeMessage}
            /\ e.v.cls = "Error"
            /\ e.v.cls /= "FetchError"
            /\ e.v.code \notin {"REQUEST_FAILED", "UNEXPECTED_ERROR"}

C21_Witness ==
  \E c \in Callers :
    LET call == calls[c]
    IN /\ call.pc = "done"
       /\ call.op.name = "lib.fetchContent"
       /\ ThrewBeforeRequest(call)
       /\ call.fcOut[1].val.v.message = TreeMessage
       /\ call.fcOut[1].val.v.cls = "Error"
       /\ call.out = call.fcOut

\* C23: fetchContent of the client passes to fetchContent the headers and the
\* cache policy of the call when the caller supplies them, and the headers
\* and the cache policy of the client otherwise; a client constructed without
\* a cache option uses force-cache.
C23_HeadersAndCacheDefaults ==
  /\ client.t = "client" =>
       client.v.cache =
         (IF ctorIn.cache = Undefined THEN Str(<<"force-cache">>) ELSE ctorIn.cache)
  /\ \A c \in Callers :
       LET call == calls[c]
       IN (call.op.name \in ClientOps /\ call.fc /= <<>>) =>
            /\ call.fc[1].headers =
                 (IF call.headers /= Undefined THEN call.headers ELSE client.v.headers)
            /\ call.fc[1].cache =
                 (IF call.cache /= Undefined THEN call.cache ELSE client.v.cache)
            /\ call.fc[1].cache /= Undefined

C23_Witness ==
  \E c \in Callers :
    LET call == calls[c]
    IN /\ call.op.name = "fetchContent"
       /\ ctorIn.cache = Undefined
       /\ ctorIn.headers /= Undefined
       /\ call.headers /= Undefined
       /\ call.cache = Undefined
       /\ call.fc /= <<>>
       /\ call.fc[1].headers = call.headers
       /\ call.fc[1].cache = Str(<<"force-cache">>)
       /\ call.fetched /= <<>>
       /\ call.fetched[1].cache = Str(<<"force-cache">>)

DiagnosticRecords(call) ==
  {j \in 1..Len(call.console) : call.console[j].group = "FETCH_REQUEST_ERROR"}

FetchRequestFailed(call) == call.frOut /= <<>> /\ call.frOut[1].kind = "throw"

\* C24: whenever fetchRequest fails (a response that is not ok, a rejection
\* of fetch, a body that does not parse), one diagnostic record with the
\* method, the url, the data, the headers and the error caught is written
\* before the error reaches the caller, and the record does not change which
\* error is thrown; a call of fetchRequest that does not fail writes none.
C24_OneDiagnosticRecordPerFailure ==
  \A c \in Callers :
    LET call == calls[c]
        records == DiagnosticRecords(call)
    IN /\ ~FetchRequestFailed(call) => records = {}
       /\ FetchRequestFailed(call) =>
            /\ Cardinality(records) = 1
            /\ call.out /= <<>>
            /\ \A j \in records :
                 LET r == call.console[j]
                     a == call.fr[1]
                     e == call.frOut[1].val
                 IN /\ r.method = a.method
                    /\ r.url = a.url
                    /\ r.data = a.data
                    /\ r.headers = a.headers
                    /\ r.error.t = "error"
                    /\ (call.resp /= <<>> /\ ~call.resp[1].ok) =>
                         (r.error = e /\ e.v.code = "REQUEST_FAILED")
                    /\ (call.resp = <<>> /\ call.fetched /= <<>>) =>
                         (r.error.v.site = "fetch" /\ e.v.code = "UNEXPECTED_ERROR")
                    /\ call.jsonCalls = 1 =>
                         (r.error.v.site = "response.json" /\ e.v.code = "UNEXPECTED_ERROR")

C24_Witness ==
  \E c \in Callers :
    LET call == calls[c]
    IN /\ call.pc = "done"
       /\ call.op.name = "lib.fetchRequest"
       /\ call.fr[1].method = POST
       /\ call.resp = <<[ok |-> FALSE]>>
       /\ FetchRequestFailed(call)
       /\ Len(call.console) = 1
       /\ call.console[1].group = "FETCH_REQUEST_ERROR"
       /\ call.console[1].data = Obj(<< <<"title", Str(<<"x">>)>> >>)
       /\ call.console[1].error = call.out[1].val

\* C27: in the lookups by numeric id (fetchPage with a number, fetchImage,
\* fetchDocument), a failure of fetchContent that is not a FetchError does not
\* reach the caller as a throw: the lookup returns a NotFoundResult whose
\* message is 'An unknown error occurred:' and whose data is the failure.
C27_UnknownErrorReported ==
  \A c \in Callers :
    LET call == calls[c]
    IN (/\ call.pc = "done"
        /\ NumericLookup(call.op)
        /\ call.fcOut /= <<>>
        /\ call.fcOut[1].kind = "throw"
        /\ call.fcOut[1].val.v.cls /= "FetchError") =>
         /\ call.out /= <<>>
         /\ call.out[1].kind = "return"
         /\ call.out[1].val.t = "object"
         /\ Len(call.out[1].val.v) = 2
         /\ Get(call.out[1].val, "message") = Str(<<"An unknown error occurred:">>)
         /\ Get(call.out[1].val, "data") = call.fcOut[1].val

C27_Witness ==
  \E c \in Callers :
    LET call == calls[c]
    IN /\ call.pc = "done"
       /\ call.op.name = "fetchPage"
       /\ call.op.arg = Num(1)
       /\ call.fcOut /= <<>>
       /\ call.fcOut[1].kind = "throw"
       /\ call.fcOut[1].val.v.cls = "Error"
       /\ call.fcOut[1].val.v.message = OrderOffsetMessage
       /\ call.out /= <<>>
       /\ call.out[1].kind = "return"
       /\ Get(call.out[1].val, "message") = Str(<<"An unknown error occurred:">>)
       /\ call.console /= <<>>
       /\ call.console[1].group = "console.error"

HasPrefix(s, p) == Len(s) >= Len(p) /\ SubSeq(s, 1, Len(p)) = p

\* the symbols of a URL after its "?"
QueryOf(url) ==
  LET i == CHOOSE j \in 1..Len(url.v) : url.v[j] = "?"
  IN SubSeq(url.v, i + 1, Len(url.v))

\* C30: in fetchPage with a textual idOrSlug, a slug key of the caller's
\* filter takes precedence over idOrSlug: the filter given to fetchContent has
\* the slug of the caller's filter, and slug is still the first key in the
\* order of serialization; when the filter has no slug key, slug is idOrSlug.
C30_SlugOfFilterWins ==
  \A c \in Callers :
    LET call == calls[c]
    IN (TextualLookup(call.op) /\ call.fc /= <<>>) =>
         LET sent == call.fc[1].queries
             slug == IF "slug" \in FilterKeys(call.queries)
                       THEN Get(call.queries, "slug") ELSE call.op.arg
         IN /\ sent.t = "object"
            /\ sent.v[1] = <<"slug", slug>>
            /\ Cardinality({i \in 1..Len(sent.v) : sent.v[i][1] = "slug"}) = 1
            /\ call.fetched /= <<>> =>
                 HasPrefix(QueryOf(call.fetched[1].url), <<"slug", "=">> \o slug.v)

C30_Witness ==
  \E c \in Callers :
    LET call == calls[c]
    IN /\ call.op.name = "fetchPage"
       /\ call.op.arg = Str(<<"home">>)
       /\ call.queries = Obj(<< <<"order", Str(<<"random">>)>>,
                               <<"slug", Str(<<"about">>)>> >>)
       /\ call.fc /= <<>>
       /\ call.fc[1].queries = Obj(<< <<"slug", Str(<<"about">>)>>,
                                     <<"order", Str(<<"random">>)>> >>)
       /\ call.fetched /= <<>>
       /\ QueryOf(call.fetched[1].url) =
            <<"slug", "=", "about", "&", "order", "=", "random">>

\* C29: fetchContent checks the order/offset rule before the tree-position
\* rule and both before it builds the URL: when a filter breaks both rules on
\* a path outside the pages family the error is the order/offset error, and in
\* every validation failure no request is prepared, no fetch is made and no
\* diagnostic record is written.
C29_OrderOffsetCheckedFirst ==
  \A c \in Callers :
    LET call == calls[c]
    IN /\ (/\ call.fc /= <<>>
           /\ HasOrderAndOffset(call.fc[1].queries)
           /\ HasTreeKey(call.fc[1].queries)
           /\ Family(call.fc[1].content) /= "pages") =>
            ThrewMessage(call.fcOut, OrderOffsetMessage)
       /\ RejectedByValidation(call) =>
            /\ call.fr = <<>>
            /\ call.fetched = <<>>
            /\ DiagnosticRecords(call) = {}

-----------------------------------------------------------------------------
(* Properties of two callers of one client, checked under SpecPair *)

SameCall(x, y) ==
  /\ x.op = y.op
  /\ x.queries = y.queries
  /\ x.headers = y.headers
  /\ x.cache = y.cache

\* what the transport answered to a call: the response, whether its body was
\* read, and the body parsed
TransportAnswer(call) ==
  <<call.resp, call.jsonCalls,
    IF call.frOut /= <<>> /\ call.frOut[1].kind = "return"
      THEN <<call.frOut[1].val>> ELSE <<>> >>

\* an outcome without the identity of the error object it may hold
Anonymous(outcome) ==
  IF outcome.kind = "throw"
    THEN <<"throw", outcome.val.v.cls, outcome.val.v.message, outcome.val.v.code>>
    ELSE <<"return", outcome.val>>

IdenticalListFetches ==
  \A c1, c2 \in Callers :
    LET x == calls[c1]
        y == calls[c2]
    IN (x.pc /= "idle" /\ y.pc /= "idle" /\ ListFetch(x.op) /\ SameCall(x, y)) =>
         /\ x.fc = y.fc
         /\ x.fr = y.fr
         /\ x.fetched = y.fetched
         /\ (x.pc = "done" /\ y.pc = "done" /\ TransportAnswer(x) = TransportAnswer(y)) =>
              Anonymous(x.out[1]) = Anonymous(y.out[1])

\* C22: calls have no hidden state: no operation of the client changes the
\* configuration of the client (baseURL, apiPath, headers, cache), so two
\* identical list fetches of one client, one after the other with the same
\* filter object and the same answer of the transport, issue identical
\* requests and return identical results.
C22_NoHiddenState == [][client' = client]_vars /\ []IdenticalListFetches

C22_Witness ==
  /\ calls[1].pc = "done"
  /\ calls[2].pc = "done"
  /\ calls[1].op.name = "fetchPages"
  /\ SameCall(calls[1], calls[2])
  /\ calls[1].headers /= Undefined
  /\ calls[1].queries /= Undefined
  /\ calls[1].fetched /= <<>>
  /\ calls[1].fetched = calls[2].fetched
  /\ calls[1].out = calls[2].out
  /\ calls[1].out[1].kind = "return"

\* each call is what its own arguments, the client and the answer to its own
\* request make it
OwnRequestAndOutcome ==
  \A c \in Callers :
    LET call == calls[c]
        m == MethodRequest(call.op, call.queries)
        a == CMSClient_fetchContent(client, m.content, m.queries, call.headers, call.cache)
    IN call.pc /= "idle" =>
         /\ call.fc = <<a>>
         /\ call.fr /= <<>> =>
              /\ call.fr = <<fetchContent(a, c).val>>
              /\ call.fetched = <<fetchRequest(call.fr[1])>>
         /\ call.frOut /= <<>> =>
              /\ call.fcOut = call.frOut
              /\ call.frOut[1].kind = "throw" => call.frOut[1].val.v.by = c
         /\ call.pc = "done" => call.out = <<MethodThen(call.op, call.fcOut[1]).out>>

\* a step of one call leaves the call of the other caller as it is
OneCallPerStep ==
  \A c, d \in Callers : (c /= d /\ calls[c]' /= calls[c]) => calls[d]' = calls[d]

\* C25: in every interleaving of two concurrent calls on one client, each
\* call issues the request that its own arguments and the configuration of
\* the client determine and returns the outcome of its own request, as when
\* the two calls run one after the other in either order.
C25_ConcurrentCallsIndependent == []OwnRequestAndOutcome /\ [][OneCallPerStep]_vars

C25_Witness ==
  /\ calls[1].pc = "parsing"
  /\ calls[2].pc = "done"
  /\ calls[1].op.name = "fetchPages"
  /\ calls[2].op.name = "fetchImage"
  /\ calls[1].headers /= calls[2].headers
  /\ calls[1].fetched /= calls[2].fetched
  /\ calls[2].frOut /= <<>>
  /\ calls[2].frOut[1].kind = "throw"
  /\ calls[2].frOut[1].val.v.by = 2
  /\ calls[2].out[1].kind = "return"

(* Properties of the media resolver, checked under SpecMedia *)

\* the base the claims name: the mediaBaseURL of the client when it was given
\* one, its baseURL when not
ConfiguredBase ==
  IF client.v.mediaBaseURL.t = "string" THEN client.v.mediaBaseURL.v
  ELSE client.v.baseURL.v

IsAbsolute(d) == d.t = "string" /\ d.v /= <<>> /\ d.v[1] \in Origins

IsRelative(d) == d.t = "string" /\ d.v /= <<>> /\ d.v[1] = "/"

\* the path of an absolute URL: the symbols between the origin and the first
\* "?" or "#", or "/" when there are none
PathOf(d) ==
  LET rest == SubSeq(d.v, 2, Len(d.v))
      stops == {i \in 1..Len(rest) : rest[i] \in {"?", "#"}}
      n == IF stops = {} THEN Len(rest)
           ELSE (CHOOSE i \in stops : \A j \in stops : i <= j) - 1
  IN IF n = 0 THEN <<"/">> ELSE SubSeq(rest, 1, n)

DocumentWithDetailUrlOnly ==
  /\ Get(mediaIn, "type") = DocumentType
  /\ IsAbsolute(Get(mediaIn, "detail_url"))
  /\ "download_url" \notin FilterKeys(mediaIn)

-----------------------------------------------------------------------------

(* Specifications *)

NextQS == CallBuildQueryString

SpecQS == InitQS /\ [][NextQS]_vars

NextCtor == Construct

SpecCtor == InitCtor /\ [][NextCtor]_vars

NextMedia == CallGetMediaSrc

SpecMedia == InitMedia /\ [][NextMedia]_vars

NextPair ==
  \/ CallClientOfPair(1)
  \/ CallClientOfPair(2)
  \/ FetchSettles(1)
  \/ FetchSettles(2)
  \/ JsonSettles(1)
  \/ JsonSettles(2)
  \/ Consume(1)
  \/ Consume(2)

SpecPair == Init /\ [][NextPair]_vars

Next ==
  \/ CallClient(1)
  \/ CallFetchContent(1)
  \/ CallFetchRequest(1)
  \/ FetchSettles(1)
  \/ JsonSettles(1)
  \/ Consume(1)

Spec == Init /\ [][Next]_vars

====
